---- MODULE Spec2Model ----
(***************************************************************************)
(* A model of the browser-driven scraper of DLSWIDOW-SCRAPER:              *)
(* SeleniumScraper (src/src/core/selenium_scraper.py) on top of            *)
(* BaseScraper (src/src/core/base_scraper.py).                             *)
(*                                                                         *)
(* One SeleniumScraper object is modelled.  Its constructor, the two       *)
(* scraping operations and cleanup are split into the steps between which  *)
(* a driver call can succeed or raise.  Strings are sequences of           *)
(* one-character strings; a Tweet built from a page element is represented *)
(* by the id of that element.                                              *)
(***************************************************************************)
EXTENDS Integers, Sequences, FiniteSets, TLC

VARIABLES
    mode,           \* "any": every page behaviour; "scenario": the 4-per-batch scenario; "validate"
    pc,             \* position of the program
    op,             \* operation in progress or last finished: "none", "init", "tweets", "profile", "cleanup"
    driver,         \* self.driver: "none", "open" (browser process alive), "quit"
    quits,          \* number of driver.quit() calls issued
    username,       \* the username argument as passed by the caller
    uname,          \* the local username after validate_username
    max_tweets,     \* the max_tweets argument
    max_scrolls,    \* config selenium.max_scrolls
    page,           \* the post elements the browser currently renders, in DOM order
    genCount,       \* number of post elements rendered so far by this page load
    stable,         \* the page only ever appended elements since it was loaded
    tweet_elements, \* the list returned by the last find_elements
    idx,            \* position of the for loop in tweet_elements
    tweets,         \* the local list tweets
    scroll_count,   \* the local scroll_count
    cause,          \* the driver call whose exception is being handled, or "none"
    outcome,        \* how the last operation ended: "none", "ok", "ValueError", "ScrapingError"
    result,         \* the list returned by scrape_user_tweets (<<>> when nothing was returned)
    profile,        \* the User returned by scrape_user_profile
    errUser,        \* the username named by the ScrapingError message
    errCause,       \* the cause named by the ScrapingError message
    navs,           \* driver.get calls issued by the current operation
    finds,          \* find_elements calls issued by the current operation
    extracts,       \* elements handed to _extract_tweet_data by the current operation
    scrolls,        \* _scroll_page calls issued by the current operation
    pauses,         \* time.sleep(scroll_pause) calls of the current operation
    rate_enabled,   \* config rate_limiting.enabled
    rate_delay,     \* config rate_limiting.delay_between_requests, in seconds
    rate_sleeps,    \* the time.sleep calls of _rate_limit_delay, each in tenths of a second
    retry,          \* the frame of one _retry_with_backoff call
    arg,            \* the argument of the function being applied
    ret             \* what the function returned or raised

vars == <<mode, pc, op, driver, quits, username, uname, max_tweets, max_scrolls,
          page, genCount, stable, tweet_elements, idx, tweets, scroll_count, cause,
          outcome, result, profile, errUser, errCause,
          navs, finds, extracts, scrolls, pauses,
          rate_enabled, rate_delay, rate_sleeps, retry, arg, ret>>

\* the state no step of the scraper object changes
aside == <<rate_enabled, rate_delay, rate_sleeps, retry, arg, ret>>

(***************************************************************************)
(* Bounds of the model.                                                    *)
(***************************************************************************)
MaxTweets == 3      \* max_tweets ranges over 0..MaxTweets
MaxScrolls == 2     \* selenium.max_scrolls ranges over 0..MaxScrolls
MaxElems == 3       \* post elements one page load renders in all
MaxBatch == 2       \* post elements one load or one scroll adds at most
MaxQuits == 2       \* cleanup() calls on one scraper object
MaxNameLen == 3     \* length of the usernames enumerated for validate_username
MaxRetries == 3     \* the max_retries argument ranges over 0..MaxRetries
MaxRateCalls == 2   \* direct calls of _rate_limit_delay
MaxRateDelay == 2   \* rate_limiting.delay_between_requests ranges over 1..MaxRateDelay
MaxMetricLen == 4    \* pieces of the text of an engagement sub-element
MaxCleanLen == 3     \* pieces of a text given to clean_text
MaxTweetObjects == 2 \* Tweet instances built in one run
MaxAppends == 1      \* appends to list fields of Tweet instances

(***************************************************************************)
(* Strings.                                                                *)
(***************************************************************************)
AlnumChars == {"a", "7"}
Chars == AlnumChars \cup {"@", "_", "-", " ", "!"}

RECURSIVE StringsUpTo(_)
StringsUpTo(n) ==
    IF n = 0 THEN {<<>>}
    ELSE LET shorter == StringsUpTo(n - 1)
         IN  shorter \cup {Append(s, c) : s \in {t \in shorter : Len(t) = n - 1}, c \in Chars}

\* str.lstrip(c): every leading occurrence of c is removed
RECURSIVE lstrip(_, _)
lstrip(s, c) ==
    IF s # <<>> /\ Head(s) = c THEN lstrip(Tail(s), c) ELSE s

\* str.replace(c, ""): every occurrence of c is removed
RECURSIVE remove(_, _)
remove(s, c) ==
    IF s = <<>> THEN <<>>
    ELSE IF Head(s) = c THEN remove(Tail(s), c)
    ELSE <<Head(s)>> \o remove(Tail(s), c)

\* str.isalnum(): at least one character and every character alphanumeric
isalnum(s) == s # <<>> /\ \A i \in 1..Len(s) : s[i] \in AlnumChars

\* BaseScraper.validate_username: [ok |-> it returned, value |-> what it returned]
validate_username(u) ==
    IF u = <<>> THEN [ok |-> FALSE, value |-> <<>>]
    ELSE LET stripped == lstrip(u, "@")
         IN  IF ~isalnum(remove(remove(stripped, "_"), "-"))
             THEN [ok |-> FALSE, value |-> <<>>]
             ELSE [ok |-> TRUE, value |-> stripped]

\* the usernames the callers of the scraper object pass
Usernames ==
    { <<>>, <<"@", "a">>, <<"a", "_", "7">>, <<"a", " ", "7">>, <<"_">> }

(***************************************************************************)
(* The page: a post element is [id, ok]; ok says _extract_tweet_data       *)
(* builds a Tweet from it (it returns None for the others).                *)
(***************************************************************************)
RECURSIVE FlagSeqs(_)
FlagSeqs(n) ==
    IF n = 0 THEN {<<>>}
    ELSE LET shorter == FlagSeqs(n - 1)
         IN  shorter \cup {Append(s, b) : s \in {t \in shorter : Len(t) = n - 1}, b \in BOOLEAN}

\* batches of exactly four elements of which exactly one is malformed
ScenarioBatches ==
    { [i \in 1..4 |-> i # bad] : bad \in 1..4 }

\* what one page load or one scroll may add to the page
Batches ==
    IF mode = "scenario" THEN ScenarioBatches
    ELSE { b \in FlagSeqs(MaxBatch) : genCount + Len(b) <= MaxElems }

Render(b, from) == [i \in 1..Len(b) |-> [id |-> from + i, ok |-> b[i]]]

\* the page may drop its oldest element when it re-renders (a virtualised list)
Drops == IF mode = "any" /\ page # <<>> THEN {0, 1} ELSE {0}

Min(a, b) == IF a <= b THEN a ELSE b

(***************************************************************************)
(* The expressions of scrape_user_tweets.                                  *)
(***************************************************************************)
\* mutant of LoopCond: the scroll budget is tested with <= instead of <
LoopCondOffByOne(tw, sc, mt, ms) == Len(tw) < mt /\ sc <= ms

\* line 111: while len(tweets) < max_tweets and scroll_count < max_scrolls
LoopCond(tw, sc, mt, ms) == Len(tw) < mt /\ sc < ms

\* line 116: tweet_elements[len(tweets):], as the first position scanned
SliceStart(tw) == Len(tw) + 1

\* mutant of BreakCond: the for loop never breaks
BreakCondNever(tw, mt) == FALSE

\* line 123: if len(tweets) >= max_tweets: break
BreakCond(tw, mt) == Len(tw) >= mt

\* line 130: if len(tweets) < max_tweets: scroll
ScrollCond(tw, mt) == Len(tw) < mt

\* line 136: tweets[:max_tweets]
Truncate(tw, mt) == SubSeq(tw, 1, Min(mt, Len(tw)))

(***************************************************************************)
(* Initial states.                                                         *)
(***************************************************************************)
NoUser == [username |-> <<>>, display_name |-> "null", bio |-> "null"]

Blank ==
    /\ quits = 0
    /\ uname = <<>>
    /\ page = <<>> /\ genCount = 0 /\ stable = TRUE
    /\ tweet_elements = <<>> /\ idx = 1
    /\ tweets = <<>> /\ scroll_count = 0
    /\ cause = "none" /\ outcome = "none"
    /\ result = <<>> /\ profile = NoUser
    /\ errUser = <<>> /\ errCause = "none"
    /\ navs = 0 /\ finds = 0 /\ extracts = 0 /\ scrolls = 0 /\ pauses = 0

\* no _retry_with_backoff call has been made
NoRetry ==
    [max_retries |-> 0, attempt |-> 0, invocations |-> 0, last_exception |-> 0,
     sleeps |-> <<>>, ended |-> "none"]

\* the default configuration of the rate limit (config.py lines 105-109),
\* no helper of BaseScraper called
NoHelper ==
    /\ rate_enabled = TRUE /\ rate_delay = 1 /\ rate_sleeps = <<>>
    /\ retry = NoRetry

\* no function is being applied
NoCall == arg = <<>> /\ ret = <<>>

\* before SeleniumScraper(config) is evaluated
Init ==
    /\ Blank
    /\ NoHelper
    /\ NoCall
    /\ mode = "any"
    /\ pc = "new" /\ op = "none"
    /\ username = <<>>
    /\ driver = "none"
    /\ max_tweets = 0
    /\ max_scrolls \in 0..MaxScrolls

(***************************************************************************)
(* SeleniumScraper.__init__ and _setup_driver.                             *)
(***************************************************************************)
\* line 79: webdriver.Chrome(options=...) starts the browser process
SetupChromeOk ==
    /\ pc = "new"
    /\ pc' = "configure" /\ op' = "init"
    /\ driver' = "open"
    /\ UNCHANGED <<aside, mode, quits, username, uname, max_tweets, max_scrolls,
                   page, genCount, stable, tweet_elements, idx, tweets, scroll_count,
                   cause, outcome, result, profile, errUser, errCause,
                   navs, finds, extracts, scrolls, pauses>>

\* lines 34-79 raise: no browser process, the constructor raises ScrapingError
SetupChromeRaise ==
    /\ pc = "new"
    /\ pc' = "dead" /\ op' = "init"
    /\ outcome' = "ScrapingError" /\ errCause' = "Chrome"
    /\ UNCHANGED <<aside, mode, driver, quits, username, uname, max_tweets, max_scrolls,
                   page, genCount, stable, tweet_elements, idx, tweets, scroll_count,
                   cause, result, profile, errUser,
                   navs, finds, extracts, scrolls, pauses>>

\* lines 81-87: implicitly_wait and set_page_load_timeout succeed
SetupConfigureOk ==
    /\ pc = "configure"
    /\ pc' = "idle"
    /\ outcome' = "ok"
    /\ UNCHANGED <<aside, mode, op, driver, quits, username, uname, max_tweets, max_scrolls,
                   page, genCount, stable, tweet_elements, idx, tweets, scroll_count,
                   cause, result, profile, errUser, errCause,
                   navs, finds, extracts, scrolls, pauses>>

\* lines 84-91: one of them raises; the handler logs and raises ScrapingError
SetupConfigureRaise ==
    /\ pc = "configure"
    /\ pc' = "dead"
    /\ outcome' = "ScrapingError" /\ errCause' = "configure"
    /\ UNCHANGED <<aside, mode, op, driver, quits, username, uname, max_tweets, max_scrolls,
                   page, genCount, stable, tweet_elements, idx, tweets, scroll_count,
                   cause, result, profile, errUser,
                   navs, finds, extracts, scrolls, pauses>>

(***************************************************************************)
(* The caller starts an operation on the constructed object.               *)
(***************************************************************************)
StartCall(o, u, mt) ==
    /\ pc = "idle"
    /\ pc' = "validate" /\ op' = o
    /\ username' = u /\ uname' = <<>>
    /\ max_tweets' = mt
    /\ page' = <<>> /\ genCount' = 0 /\ stable' = TRUE
    /\ tweet_elements' = <<>> /\ idx' = 1
    /\ tweets' = <<>> /\ scroll_count' = 0
    /\ cause' = "none" /\ outcome' = "none"
    /\ result' = <<>> /\ profile' = NoUser
    /\ errUser' = <<>> /\ errCause' = "none"
    /\ navs' = 0 /\ finds' = 0 /\ extracts' = 0 /\ scrolls' = 0 /\ pauses' = 0
    /\ UNCHANGED <<aside, mode, driver, quits, max_scrolls>>

\* scrape_user_tweets(username, max_tweets) is called
TweetsCall == \E u \in Usernames, mt \in 0..MaxTweets : StartCall("tweets", u, mt)

\* scrape_user_profile(username) is called
ProfileCall == \E u \in Usernames : StartCall("profile", u, 0)

(***************************************************************************)
(* Lines 95 and 143: username = self.validate_username(username), outside  *)
(* the try block.                                                          *)
(***************************************************************************)
\* mutant of Validate: validate_username is called inside the try block, so
\* its ValueError is handled like a driver failure
ValidateInsideTry ==
    /\ pc = "validate"
    /\ LET v == validate_username(username)
       IN  IF v.ok
           THEN /\ uname' = v.value
                /\ pc' = "get"
                /\ UNCHANGED cause
           ELSE /\ cause' = "validate_username"
                /\ pc' = "except"
                /\ UNCHANGED uname
    /\ UNCHANGED <<aside, mode, op, driver, quits, username, max_tweets, max_scrolls,
                   page, genCount, stable, tweet_elements, idx, tweets, scroll_count,
                   outcome, result, profile, errUser, errCause,
                   navs, finds, extracts, scrolls, pauses>>

Validate ==
    /\ pc = "validate"
    /\ LET v == validate_username(username)
       IN  IF v.ok
           THEN /\ uname' = v.value
                /\ pc' = "get"
                /\ UNCHANGED outcome
           ELSE /\ outcome' = "ValueError"
                /\ pc' = "idle"
                /\ UNCHANGED uname
    /\ UNCHANGED <<aside, mode, op, driver, quits, username, max_tweets, max_scrolls,
                   page, genCount, stable, tweet_elements, idx, tweets, scroll_count,
                   cause, result, profile, errUser, errCause,
                   navs, finds, extracts, scrolls, pauses>>

(***************************************************************************)
(* Lines 103-104 and 148-149: self.driver.get(url); _wait_for_page_load(). *)
(***************************************************************************)
\* what the freshly loaded page shows
FirstBatches ==
    IF op = "profile" THEN {<<>>}
    ELSE IF mode = "scenario" THEN ScenarioBatches
    ELSE FlagSeqs(MaxBatch)

GetOk ==
    /\ pc = "get"
    /\ driver = "open"
    /\ navs' = navs + 1
    /\ \E b \in FirstBatches :
          /\ page' = Render(b, 0)
          /\ genCount' = Len(b)
    /\ stable' = TRUE
    /\ pc' = "wait"
    /\ UNCHANGED <<aside, mode, op, driver, quits, username, uname, max_tweets, max_scrolls,
                   tweet_elements, idx, tweets, scroll_count,
                   cause, outcome, result, profile, errUser, errCause,
                   finds, extracts, scrolls, pauses>>

\* driver.get raises (always, once the browser has been quit)
GetRaise ==
    /\ pc = "get"
    /\ navs' = navs + 1
    /\ cause' = "get"
    /\ pc' = "except"
    /\ UNCHANGED <<aside, mode, op, driver, quits, username, uname, max_tweets, max_scrolls,
                   page, genCount, stable, tweet_elements, idx, tweets, scroll_count,
                   outcome, result, profile, errUser, errCause,
                   finds, extracts, scrolls, pauses>>

\* line 85 sets page_load_timeout: a load that takes longer makes driver.get
\* raise TimeoutException
GetTimeout ==
    /\ pc = "get"
    /\ driver = "open"
    /\ navs' = navs + 1
    /\ cause' = "page_load_timeout"
    /\ pc' = "except"
    /\ UNCHANGED <<aside, mode, op, driver, quits, username, uname, max_tweets, max_scrolls,
                   page, genCount, stable, tweet_elements, idx, tweets, scroll_count,
                   outcome, result, profile, errUser, errCause,
                   finds, extracts, scrolls, pauses>>

AfterWait == IF op = "tweets" THEN "loop" ELSE "extract_profile"

\* the article element is present in time
WaitOk ==
    /\ pc = "wait"
    /\ pc' = AfterWait
    /\ UNCHANGED <<aside, mode, op, driver, quits, username, uname, max_tweets, max_scrolls,
                   page, genCount, stable, tweet_elements, idx, tweets, scroll_count,
                   cause, outcome, result, profile, errUser, errCause,
                   navs, finds, extracts, scrolls, pauses>>

\* lines 303-304: TimeoutException is caught and logged
WaitTimeout ==
    /\ pc = "wait"
    /\ pc' = AfterWait
    /\ UNCHANGED <<aside, mode, op, driver, quits, username, uname, max_tweets, max_scrolls,
                   page, genCount, stable, tweet_elements, idx, tweets, scroll_count,
                   cause, outcome, result, profile, errUser, errCause,
                   navs, finds, extracts, scrolls, pauses>>

\* any other exception of the wait leaves _wait_for_page_load
WaitRaise ==
    /\ pc = "wait"
    /\ cause' = "wait"
    /\ pc' = "except"
    /\ UNCHANGED <<aside, mode, op, driver, quits, username, uname, max_tweets, max_scrolls,
                   page, genCount, stable, tweet_elements, idx, tweets, scroll_count,
                   outcome, result, profile, errUser, errCause,
                   navs, finds, extracts, scrolls, pauses>>

(***************************************************************************)
(* Lines 106-136: the scroll loop of scrape_user_tweets.  tweets = [] and  *)
(* scroll_count = 0 (lines 106-107) are set when the call starts.          *)
(***************************************************************************)
\* line 111: the while test
LoopTest ==
    /\ pc = "loop"
    /\ pc' = IF LoopCond(tweets, scroll_count, max_tweets, max_scrolls)
             THEN "find" ELSE "return"
    /\ UNCHANGED <<aside, mode, op, driver, quits, username, uname, max_tweets, max_scrolls,
                   page, genCount, stable, tweet_elements, idx, tweets, scroll_count,
                   cause, outcome, result, profile, errUser, errCause,
                   navs, finds, extracts, scrolls, pauses>>

\* lines 112-116: find_elements returns the rendered elements; the for loop
\* starts at tweet_elements[len(tweets):]
FindOk ==
    /\ pc = "find"
    /\ finds' = finds + 1
    /\ tweet_elements' = page
    /\ idx' = SliceStart(tweets)
    /\ pc' = "for"
    /\ UNCHANGED <<aside, mode, op, driver, quits, username, uname, max_tweets, max_scrolls,
                   page, genCount, stable, tweets, scroll_count,
                   cause, outcome, result, profile, errUser, errCause,
                   navs, extracts, scrolls, pauses>>

FindRaise ==
    /\ pc = "find"
    /\ finds' = finds + 1
    /\ cause' = "find_elements"
    /\ pc' = "except"
    /\ UNCHANGED <<aside, mode, op, driver, quits, username, uname, max_tweets, max_scrolls,
                   page, genCount, stable, tweet_elements, idx, tweets, scroll_count,
                   outcome, result, profile, errUser, errCause,
                   navs, extracts, scrolls, pauses>>

\* mutant of ForStep: a failed extraction leaves the for loop through the
\* outer handler
ForStepAborts ==
    /\ pc = "for"
    /\ IF idx > Len(tweet_elements)
       THEN /\ pc' = "after"
            /\ UNCHANGED <<idx, tweets, extracts, cause>>
       ELSE /\ extracts' = extracts + 1
            /\ IF tweet_elements[idx].ok
               THEN /\ tweets' = Append(tweets, tweet_elements[idx].id)
                    /\ UNCHANGED cause
                    /\ IF BreakCond(tweets', max_tweets)
                       THEN pc' = "after" /\ UNCHANGED idx
                       ELSE pc' = "for" /\ idx' = idx + 1
               ELSE /\ UNCHANGED <<tweets, idx>>
                    /\ cause' = "extract"
                    /\ pc' = "except"
    /\ UNCHANGED <<aside, mode, op, driver, quits, username, uname, max_tweets, max_scrolls,
                   page, genCount, stable, tweet_elements, scroll_count,
                   outcome, result, profile, errUser, errCause,
                   navs, finds, scrolls, pauses>>

\* lines 116-128: one turn of the for loop.  _extract_tweet_data returns a
\* Tweet or None and never raises (lines 204-208); _should_include_tweet is
\* True (line 294).
ForStep ==
    /\ pc = "for"
    /\ IF idx > Len(tweet_elements)
       THEN /\ pc' = "after"
            /\ UNCHANGED <<idx, tweets, extracts>>
       ELSE /\ extracts' = extracts + 1
            /\ IF tweet_elements[idx].ok
               THEN /\ tweets' = Append(tweets, tweet_elements[idx].id)
                    /\ IF BreakCond(tweets', max_tweets)
                       THEN pc' = "after" /\ UNCHANGED idx
                       ELSE pc' = "for" /\ idx' = idx + 1
               ELSE /\ UNCHANGED tweets
                    /\ pc' = "for" /\ idx' = idx + 1
    /\ UNCHANGED <<aside, mode, op, driver, quits, username, uname, max_tweets, max_scrolls,
                   page, genCount, stable, tweet_elements, scroll_count,
                   cause, outcome, result, profile, errUser, errCause,
                   navs, finds, scrolls, pauses>>

\* line 130: if len(tweets) < max_tweets
AfterFor ==
    /\ pc = "after"
    /\ pc' = IF ScrollCond(tweets, max_tweets) THEN "scroll" ELSE "loop"
    /\ UNCHANGED <<aside, mode, op, driver, quits, username, uname, max_tweets, max_scrolls,
                   page, genCount, stable, tweet_elements, idx, tweets, scroll_count,
                   cause, outcome, result, profile, errUser, errCause,
                   navs, finds, extracts, scrolls, pauses>>

\* line 131: _scroll_page(); the page renders a further batch of elements
ScrollOk ==
    /\ pc = "scroll"
    /\ scrolls' = scrolls + 1
    /\ \E b \in Batches, d \in Drops :
          /\ page' = SubSeq(page, 1 + d, Len(page)) \o Render(b, genCount)
          /\ genCount' = genCount + Len(b)
          /\ stable' = (stable /\ d = 0)
    /\ pc' = "pause"
    /\ UNCHANGED <<aside, mode, op, driver, quits, username, uname, max_tweets, max_scrolls,
                   tweet_elements, idx, tweets, scroll_count,
                   cause, outcome, result, profile, errUser, errCause,
                   navs, finds, extracts, pauses>>

ScrollRaise ==
    /\ pc = "scroll"
    /\ scrolls' = scrolls + 1
    /\ cause' = "execute_script"
    /\ pc' = "except"
    /\ UNCHANGED <<aside, mode, op, driver, quits, username, uname, max_tweets, max_scrolls,
                   page, genCount, stable, tweet_elements, idx, tweets, scroll_count,
                   outcome, result, profile, errUser, errCause,
                   navs, finds, extracts, pauses>>

\* lines 132-133: time.sleep(scroll_pause); scroll_count += 1
Pause ==
    /\ pc = "pause"
    /\ pauses' = pauses + 1
    /\ scroll_count' = scroll_count + 1
    /\ pc' = "loop"
    /\ UNCHANGED <<aside, mode, op, driver, quits, username, uname, max_tweets, max_scrolls,
                   page, genCount, stable, tweet_elements, idx, tweets,
                   cause, outcome, result, profile, errUser, errCause,
                   navs, finds, extracts, scrolls>>

\* line 136: return tweets[:max_tweets]
ReturnTweets ==
    /\ pc = "return"
    /\ result' = Truncate(tweets, max_tweets)
    /\ outcome' = "ok"
    /\ pc' = "idle"
    /\ UNCHANGED <<aside, mode, op, driver, quits, username, uname, max_tweets, max_scrolls,
                   page, genCount, stable, tweet_elements, idx, tweets, scroll_count,
                   cause, profile, errUser, errCause,
                   navs, finds, extracts, scrolls, pauses>>

\* mutant of Except: the handler returns the tweets accumulated so far
ExceptReturnsPartial ==
    /\ pc = "except"
    /\ outcome' = "ok"
    /\ result' = tweets
    /\ pc' = "idle"
    /\ UNCHANGED <<aside, mode, op, driver, quits, username, uname, max_tweets, max_scrolls,
                   page, genCount, stable, tweet_elements, idx, tweets, scroll_count,
                   cause, profile, errUser, errCause,
                   navs, finds, extracts, scrolls, pauses>>

\* mutant of Except: the ScrapingError message leaves out the cause
ExceptDropsCause ==
    /\ pc = "except"
    /\ outcome' = "ScrapingError"
    /\ errUser' = uname
    /\ pc' = "idle"
    /\ UNCHANGED <<aside, mode, op, driver, quits, username, uname, max_tweets, max_scrolls,
                   page, genCount, stable, tweet_elements, idx, tweets, scroll_count,
                   cause, result, profile, errCause,
                   navs, finds, extracts, scrolls, pauses>>

\* lines 138-140 and 161-163: except Exception as e: raise ScrapingError(
\* f"Failed to scrape ... for user @{username}: {e}")
Except ==
    /\ pc = "except"
    /\ outcome' = "ScrapingError"
    /\ errUser' = uname
    /\ errCause' = cause
    /\ pc' = "idle"
    /\ UNCHANGED <<aside, mode, op, driver, quits, username, uname, max_tweets, max_scrolls,
                   page, genCount, stable, tweet_elements, idx, tweets, scroll_count,
                   cause, result, profile,
                   navs, finds, extracts, scrolls, pauses>>

(***************************************************************************)
(* Lines 151-159 and 249-290: the profile is read from the loaded page.    *)
(* Each of the two lookups is wrapped in a bare except, so a missing       *)
(* element leaves the field None; the dictionary is always returned.       *)
(***************************************************************************)
ExtractProfile ==
    /\ pc = "extract_profile"
    /\ \E name \in {"null", "text"}, bio \in {"null", "text"} :
          profile' = [username |-> uname, display_name |-> name, bio |-> bio]
    /\ outcome' = "ok"
    /\ pc' = "idle"
    /\ UNCHANGED <<aside, mode, op, driver, quits, username, uname, max_tweets, max_scrolls,
                   page, genCount, stable, tweet_elements, idx, tweets, scroll_count,
                   cause, result, errUser, errCause,
                   navs, finds, extracts, scrolls, pauses>>

(***************************************************************************)
(* Lines 310-318: cleanup() quits the driver; a failure of quit is logged. *)
(***************************************************************************)
Cleanup ==
    /\ pc = "idle"
    /\ quits < MaxQuits
    /\ op' = "cleanup"
    /\ quits' = quits + 1
    /\ driver' = "quit"
    /\ outcome' = "ok"
    /\ UNCHANGED <<aside, mode, pc, username, uname, max_tweets, max_scrolls,
                   page, genCount, stable, tweet_elements, idx, tweets, scroll_count,
                   cause, result, profile, errUser, errCause,
                   navs, finds, extracts, scrolls, pauses>>

(***************************************************************************)
(* Specifications.                                                         *)
(***************************************************************************)
\* the steps of an operation in progress
Step ==
    \/ SetupChromeOk \/ SetupChromeRaise \/ SetupConfigureOk \/ SetupConfigureRaise
    \/ Validate
    \/ GetOk \/ GetRaise \/ GetTimeout
    \/ WaitOk \/ WaitTimeout \/ WaitRaise
    \/ LoopTest
    \/ FindOk \/ FindRaise
    \/ ForStep
    \/ AfterFor
    \/ ScrollOk \/ ScrollRaise
    \/ Pause
    \/ ReturnTweets
    \/ Except
    \/ ExtractProfile

Next ==
    \/ Step
    \/ TweetsCall
    \/ ProfileCall
    \/ Cleanup

Spec == Init /\ [][Next]_vars

\* an operation in progress keeps running: the program is sequential and
\* every driver call and sleep returns or raises
FairSpec == Spec /\ WF_vars(Step)

(***************************************************************************)
(* The scenario of the scroll loop: scrape_user_tweets("a", 10) has just   *)
(* been called on a constructed scraper whose selenium.max_scrolls is 2;   *)
(* no driver call raises; the page load and every scroll render four new   *)
(* elements of which exactly one is malformed.                             *)
(***************************************************************************)
InitScenario ==
    /\ Blank /\ NoHelper /\ NoCall
    /\ mode = "scenario"
    /\ pc = "validate" /\ op = "tweets"
    /\ username = <<"a">>
    /\ driver = "open"
    /\ max_tweets = 10
    /\ max_scrolls = 2

NextScenario ==
    \/ Validate
    \/ GetOk
    \/ WaitOk
    \/ LoopTest
    \/ FindOk
    \/ ForStep
    \/ AfterFor
    \/ ScrollOk
    \/ Pause
    \/ ReturnTweets

SpecScenario == InitScenario /\ [][NextScenario]_vars

(***************************************************************************)
(* validate_username on every string of at most MaxNameLen characters: a   *)
(* scraping operation has just been called with it.                        *)
(***************************************************************************)
InitValidate ==
    /\ Blank /\ NoHelper /\ NoCall
    /\ mode = "validate"
    /\ pc = "validate" /\ op \in {"tweets", "profile"}
    /\ username \in StringsUpTo(MaxNameLen)
    /\ driver = "open"
    /\ max_tweets = 0
    /\ max_scrolls = 0

NextValidate == Validate

SpecValidate == InitValidate /\ [][NextValidate]_vars

(***************************************************************************)
(* The helpers of BaseScraper, called directly on a scraper object:        *)
(* _rate_limit_delay (lines 45-50) and _retry_with_backoff (lines 52-70).  *)
(* Sleeps are in tenths of a second; of the interval random.uniform draws  *)
(* from, both ends and the middle are modelled.  The work function either  *)
(* returns or raises; the exception of its n-th invocation is n.           *)
(***************************************************************************)
\* the state of the scraper object apart from pc
scraper == <<mode, op, driver, quits, username, uname, max_tweets, max_scrolls,
             page, genCount, stable, tweet_elements, idx, tweets, scroll_count, cause,
             outcome, result, profile, errUser, errCause,
             navs, finds, extracts, scrolls, pauses>>

NoScraper ==
    /\ Blank
    /\ op = "none" /\ username = <<>> /\ driver = "none"
    /\ max_tweets = 0 /\ max_scrolls = 0

RECURSIVE Pow2(_)
Pow2(k) == IF k = 0 THEN 1 ELSE 2 * Pow2(k - 1)

\* random.uniform(0.5, 1.5), in tenths
RateJitters == {5, 10, 15}

\* random.uniform(1, 2), in tenths
BackoffJitters == {10, 15, 20}

\* lines 47-50: if enabled, time.sleep(delay * jitter)
RateLimitDelay ==
    /\ pc = "base_idle"
    /\ Len(rate_sleeps) < MaxRateCalls
    /\ IF rate_enabled
       THEN \E j \in RateJitters : rate_sleeps' = Append(rate_sleeps, rate_delay * j)
       ELSE UNCHANGED rate_sleeps
    /\ UNCHANGED <<scraper, pc, rate_enabled, rate_delay, retry, arg, ret>>

\* _retry_with_backoff(func, max_retries) is called; line 54
RetryCall ==
    /\ pc = "base_idle"
    /\ retry.ended = "none"
    /\ \E n \in 0..MaxRetries :
          retry' = [NoRetry EXCEPT !.max_retries = n]
    /\ pc' = "retry_for"
    /\ UNCHANGED <<scraper, rate_enabled, rate_delay, rate_sleeps, arg, ret>>

\* line 56: for attempt in range(max_retries)
RangeHasNext(attempt, n) == attempt < n

\* line 61: if attempt < max_retries
SleepCond(attempt, n) == attempt < n

\* line 56, and line 70 when the range is used up: raise last_exception;
\* raise None is a TypeError
RetryFor ==
    /\ pc = "retry_for"
    /\ IF RangeHasNext(retry.attempt, retry.max_retries)
       THEN /\ pc' = "retry_try"
            /\ UNCHANGED retry
       ELSE /\ pc' = "base_idle"
            /\ retry' = [retry EXCEPT !.ended =
                            IF retry.last_exception = 0 THEN "TypeError" ELSE "raised"]
    /\ UNCHANGED <<scraper, rate_enabled, rate_delay, rate_sleeps, arg, ret>>

\* line 58: return func(*args, **kwargs)
RetryWorkReturns ==
    /\ pc = "retry_try"
    /\ retry' = [retry EXCEPT !.invocations = @ + 1, !.ended = "returned"]
    /\ pc' = "base_idle"
    /\ UNCHANGED <<scraper, rate_enabled, rate_delay, rate_sleeps, arg, ret>>

\* lines 59-61: the work raises; last_exception = e
RetryWorkRaises ==
    /\ pc = "retry_try"
    /\ retry' = [retry EXCEPT !.invocations = @ + 1,
                              !.last_exception = retry.invocations + 1]
    /\ pc' = IF SleepCond(retry.attempt, retry.max_retries) THEN "retry_sleep" ELSE "retry_next"
    /\ UNCHANGED <<scraper, rate_enabled, rate_delay, rate_sleeps, arg, ret>>

\* lines 62-66: delay = (2 ** attempt) * random.uniform(1, 2); time.sleep(delay)
RetrySleep ==
    /\ pc = "retry_sleep"
    /\ \E j \in BackoffJitters :
          retry' = [retry EXCEPT !.sleeps =
                       Append(@, [attempt |-> retry.attempt,
                                  after |-> retry.invocations,
                                  delay |-> Pow2(retry.attempt) * j])]
    /\ pc' = "retry_next"
    /\ UNCHANGED <<scraper, rate_enabled, rate_delay, rate_sleeps, arg, ret>>

\* the for loop takes the next attempt
RetryNext ==
    /\ pc = "retry_next"
    /\ retry' = [retry EXCEPT !.attempt = @ + 1]
    /\ pc' = "retry_for"
    /\ UNCHANGED <<scraper, rate_enabled, rate_delay, rate_sleeps, arg, ret>>

InitBase ==
    /\ NoScraper /\ NoCall
    /\ mode = "base"
    /\ pc = "base_idle"
    /\ rate_enabled \in BOOLEAN
    /\ rate_delay \in 1..MaxRateDelay
    /\ rate_sleeps = <<>>
    /\ retry = NoRetry

NextBase ==
    \/ RateLimitDelay
    \/ RetryCall
    \/ RetryFor
    \/ RetryWorkReturns
    \/ RetryWorkRaises
    \/ RetrySleep
    \/ RetryNext

SpecBase == InitBase /\ [][NextBase]_vars

(***************************************************************************)
(* Numbers shown in the engagement sub-elements.  A text is a sequence of  *)
(* pieces: single characters, and the word "inf" that float() reads as     *)
(* infinity.  float() is computed exactly as sign, digits and number of    *)
(* decimals; with the digits 1 and 5 and at most MaxMetricLen + 1 pieces   *)
(* the product with a multiplier is the same in binary floating point.     *)
(* An integer result is held as n * 10^e, n without trailing zeros.        *)
(* helpers.parse_number_abbrev (helpers.py lines 99-126) and               *)
(* SeleniumScraper._parse_metric_number (lines 232-247) are two parsers.   *)
(***************************************************************************)
MetricPieces == {"1", "5", ".", ",", "-", " ", "K", "k", "M", "B", "inf"}

RECURSIVE TextsUpTo(_, _)
TextsUpTo(P, n) ==
    IF n = 0 THEN {<<>>}
    ELSE LET shorter == TextsUpTo(P, n - 1)
         IN  shorter \cup {Append(s, c) : s \in {t \in shorter : Len(t) = n - 1}, c \in P}

MetricTexts == TextsUpTo(MetricPieces, MaxMetricLen)

DigitChars == <<"0", "1", "2", "3", "4", "5", "6", "7", "8", "9">>

IsDigit(c) == \E i \in 1..Len(DigitChars) : DigitChars[i] = c

DigitValue(c) == (CHOOSE i \in 1..Len(DigitChars) : DigitChars[i] = c) - 1

\* str.rstrip(c)
RECURSIVE rstrip(_, _)
rstrip(s, c) ==
    IF s # <<>> /\ s[Len(s)] = c THEN rstrip(SubSeq(s, 1, Len(s) - 1), c) ELSE s

\* str.strip() on a text whose only whitespace is " "
strip(s) == rstrip(lstrip(s, " "), " ")

\* c in s
Contains(s, c) == \E i \in 1..Len(s) : s[i] = c

RECURSIVE Pow10(_)
Pow10(k) == IF k = 0 THEN 1 ELSE 10 * Pow10(k - 1)

\* the digits of s read as one decimal number, the point ignored
RECURSIVE Mantissa(_)
Mantissa(s) ==
    IF s = <<>> THEN 0
    ELSE LET init == SubSeq(s, 1, Len(s) - 1)
             last == s[Len(s)]
         IN  IF last = "." THEN Mantissa(init) ELSE 10 * Mantissa(init) + DigitValue(last)

\* the number of digits after the point
Decimals(s) ==
    IF Contains(s, ".") THEN Len(s) - (CHOOSE i \in 1..Len(s) : s[i] = ".") ELSE 0

\* what a call returned (the integer n * 10^e), or the exception it raised
RECURSIVE Returned(_, _)
Returned(n, e) ==
    IF n = 0 THEN [kind |-> "int", n |-> 0, e |-> 0, exc |-> "none"]
    ELSE IF n % 10 = 0 THEN Returned(n \div 10, e + 1)
    ELSE [kind |-> "int", n |-> n, e |-> e, exc |-> "none"]

Raised(exc) == [kind |-> "raise", n |-> 0, e |-> 0, exc |-> exc]
NoResult == [kind |-> "none", n |-> 0, e |-> 0, exc |-> "none"]

\* -r for an integer result r
Negated(r) == [r EXCEPT !.n = 0 - r.n]

\* float(text): surrounding whitespace is ignored, then an optional minus
\* sign, then "inf" or digits with at most one point and at least one digit
float(t) ==
    LET s == strip(t)
        neg == s # <<>> /\ Head(s) = "-"
        body == IF neg THEN Tail(s) ELSE s
    IN  IF body = <<"inf">>
        THEN [kind |-> "inf", neg |-> neg, mant |-> 0, frac |-> 0]
        ELSE IF /\ \A i \in 1..Len(body) : IsDigit(body[i]) \/ body[i] = "."
                /\ \E i \in 1..Len(body) : IsDigit(body[i])
                /\ Len(body) - Len(remove(body, ".")) <= 1
        THEN [kind |-> "num", neg |-> neg, mant |-> Mantissa(body), frac |-> Decimals(body)]
        ELSE [kind |-> "ValueError", neg |-> FALSE, mant |-> 0, frac |-> 0]

\* int(float(text) * 10^zeros): ValueError comes from float(), int() of an
\* infinity raises OverflowError, and int() truncates towards zero
IntOfProduct(f, zeros) ==
    IF f.kind = "ValueError" THEN Raised("ValueError")
    ELSE IF f.kind = "inf" THEN Raised("OverflowError")
    ELSE LET magnitude == IF zeros >= f.frac
                          THEN Returned(f.mant, zeros - f.frac)
                          ELSE Returned(f.mant \div Pow10(f.frac - zeros), 0)
         IN  IF f.neg THEN Negated(magnitude) ELSE magnitude

\* int(text): surrounding whitespace is ignored, then an optional minus sign
\* and digits only
int(t) ==
    LET s == strip(t)
        neg == s # <<>> /\ Head(s) = "-"
        body == IF neg THEN Tail(s) ELSE s
    IN  IF body # <<>> /\ \A i \in 1..Len(body) : IsDigit(body[i])
        THEN IF neg THEN Negated(Returned(Mantissa(body), 0)) ELSE Returned(Mantissa(body), 0)
        ELSE Raised("ValueError")

\* except ValueError: return 0
ExceptValueError(r) ==
    IF r.kind = "raise" /\ r.exc = "ValueError" THEN Returned(0, 0) ELSE r

\* helpers.py lines 106-113: the multipliers dict, each multiplier 10^zeros
\* given by its number of zeros
Suffixes == {"K", "M", "B", "k", "m", "b"}

Zeros(suffix) ==
    CASE suffix \in {"K", "k"} -> 3
      [] suffix \in {"M", "m"} -> 6
      [] suffix \in {"B", "b"} -> 9

\* helpers.parse_number_abbrev
parse_number_abbrev(text0) ==
    IF text0 = <<>> THEN Returned(0, 0)
    ELSE LET text == strip(remove(text0, ","))
         IN  IF text # <<>> /\ text[Len(text)] \in Suffixes
             THEN ExceptValueError(IntOfProduct(float(SubSeq(text, 1, Len(text) - 1)),
                                                Zeros(text[Len(text)])))
             ELSE ExceptValueError(IntOfProduct(float(text), 0))

\* SeleniumScraper._parse_metric_number
_parse_metric_number(text0) ==
    IF text0 = <<>> THEN Returned(0, 0)
    ELSE LET text == remove(text0, ",")
         IN  IF Contains(text, "K")
             THEN IntOfProduct(float(remove(text, "K")), 3)
             ELSE IF Contains(text, "M")
             THEN IntOfProduct(float(remove(text, "M")), 6)
             ELSE LET r == int(text)
                  IN  IF r.kind = "raise" THEN Returned(0, 0) ELSE r

\* lines 222-228: the body of the loop of _extract_engagement_metrics for
\* one sub-element; find_element raises NoSuchElementException when the
\* sub-element is missing, and any other exception leaves the loop
MetricOf(elem) ==
    IF elem.state = "missing" THEN Returned(0, 0)
    ELSE IF elem.state = "stale" THEN Raised("StaleElementReferenceException")
    ELSE ExceptValueError(_parse_metric_number(strip(elem.text)))

\* parse_number_abbrev(arg) is evaluated
ParseNumberAbbrev ==
    /\ pc = "number_idle"
    /\ ret' = parse_number_abbrev(arg)
    /\ pc' = "abbrev_done"
    /\ UNCHANGED <<scraper, rate_enabled, rate_delay, rate_sleeps, retry, arg>>

\* one metric of an element is extracted; its sub-element shows arg
ExtractMetricFound ==
    /\ pc = "number_idle"
    /\ ret' = MetricOf([state |-> "found", text |-> arg])
    /\ pc' = "metric_done"
    /\ UNCHANGED <<scraper, rate_enabled, rate_delay, rate_sleeps, retry, arg>>

\* one metric of an element is extracted; its sub-element is missing
ExtractMetricMissing ==
    /\ pc = "number_idle"
    /\ ret' = MetricOf([state |-> "missing", text |-> <<>>])
    /\ pc' = "metric_missing"
    /\ UNCHANGED <<scraper, rate_enabled, rate_delay, rate_sleeps, retry, arg>>

InitNumbers ==
    /\ NoScraper /\ NoHelper
    /\ mode = "numbers"
    /\ pc = "number_idle"
    /\ arg \in MetricTexts
    /\ ret = NoResult

NextNumbers ==
    \/ ParseNumberAbbrev
    \/ ExtractMetricFound
    \/ ExtractMetricMissing

SpecNumbers == InitNumbers /\ [][NextNumbers]_vars

(***************************************************************************)
(* helpers.clean_text (helpers.py lines 14-29).  A text is a sequence of   *)
(* pieces: the characters "&", "<", " " and "x", the no-break space U+00A0 *)
(* (written "NBSP"), and the entity tails "amp;" and "lt;".                *)
(***************************************************************************)
CleanPieces == {"&", "amp;", "lt;", " ", "x", "NBSP"}

CleanTexts == TextsUpTo(CleanPieces, MaxCleanLen)

\* html.unescape: one pass from left to right; "&amp;" becomes "&" and
\* "&lt;" becomes "<", and what a replacement produces is not read again
RECURSIVE unescape(_)
unescape(s) ==
    IF s = <<>> THEN <<>>
    ELSE IF Len(s) >= 2 /\ s[1] = "&" /\ s[2] = "amp;"
    THEN <<"&">> \o unescape(SubSeq(s, 3, Len(s)))
    ELSE IF Len(s) >= 2 /\ s[1] = "&" /\ s[2] = "lt;"
    THEN <<"<">> \o unescape(SubSeq(s, 3, Len(s)))
    ELSE <<Head(s)>> \o unescape(Tail(s))

\* unicodedata.normalize('NFKC', text): U+00A0 becomes a space
normalize(s) == [i \in 1..Len(s) |-> IF s[i] = "NBSP" THEN " " ELSE s[i]]

\* what \s matches
IsSpace(c) == c \in {" ", "NBSP"}

\* re.sub(r'\s+', ' ', text): each run of whitespace becomes one space
RECURSIVE collapse(_)
collapse(s) ==
    IF s = <<>> THEN <<>>
    ELSE IF IsSpace(s[1])
    THEN IF Len(s) >= 2 /\ IsSpace(s[2])
         THEN collapse(Tail(s))
         ELSE <<" ">> \o collapse(Tail(s))
    ELSE <<Head(s)>> \o collapse(Tail(s))

\* helpers.clean_text
clean_text(text) ==
    IF text = <<>> THEN <<>>
    ELSE strip(collapse(normalize(unescape(text))))

\* clean_text is applied to arg, and then to its own result
CleanText ==
    /\ pc = "clean_idle"
    /\ ret.calls < 2
    /\ ret' = IF ret.calls = 0
              THEN [calls |-> 1, first |-> clean_text(arg), last |-> clean_text(arg)]
              ELSE [ret EXCEPT !.calls = 2, !.last = clean_text(ret.last)]
    /\ UNCHANGED <<scraper, pc, rate_enabled, rate_delay, rate_sleeps, retry, arg>>

InitClean ==
    /\ NoScraper /\ NoHelper
    /\ mode = "clean"
    /\ pc = "clean_idle"
    /\ arg \in CleanTexts
    /\ ret = [calls |-> 0, first |-> <<>>, last |-> <<>>]

NextClean == CleanText

SpecClean == InitClean /\ [][NextClean]_vars

(***************************************************************************)
(* SeleniumScraper._extract_tweet_data (lines 165-208) on one post         *)
(* element.  An element is given by what each lookup inside it does: the   *)
(* sub-element is found, is missing (NoSuchElementException), or the       *)
(* lookup fails otherwise (the element has gone stale).                    *)
(***************************************************************************)
\* texts of the tweetText container
ElementTexts == { <<>>, <<" ">>, <<"x">>, <<"&", "amp;", "lt;">> }

TextContainers ==
    {[state |-> "found", text |-> t] : t \in ElementTexts}
        \cup {[state |-> "missing", text |-> <<>>], [state |-> "stale", text |-> <<>>]}

\* the time sub-element: missing, or found with a datetime attribute that
\* fromisoformat parses ("iso"), that it rejects ("unparseable"), or with no
\* datetime attribute at all ("no_attribute")
TimeMarkers == {"missing", "stale", "iso", "unparseable", "no_attribute"}

\* texts of an engagement sub-element
MetricSamples == { <<>>, <<"5">>, <<"-", "5">>, <<"inf", "K">> }

MetricElements ==
    {[state |-> "found", text |-> t] : t \in MetricSamples}
        \cup {[state |-> "missing", text |-> <<>>], [state |-> "stale", text |-> <<>>]}

PostElements ==
    [text : TextContainers, time : TimeMarkers,
     replies : MetricElements, retweets : MetricElements,
     likes : MetricElements, quotes : MetricElements]

\* mutant of TimestampOf: a time marker that cannot be read is an error
TimestampStrict(time) == IF time = "iso" THEN "parsed" ELSE "raise"

\* lines 174-179: the parsed timestamp, or datetime.now() after any failure
TimestampOf(time) == IF time = "iso" THEN "parsed" ELSE "now"

\* lines 210-230: the four counts, or the first exception that is neither
\* NoSuchElementException nor ValueError
_extract_engagement_metrics(element) ==
    LET replies == MetricOf(element.replies)
        retweets == MetricOf(element.retweets)
        likes == MetricOf(element.likes)
        quotes == MetricOf(element.quotes)
    IN  [raised |-> \E r \in {replies, retweets, likes, quotes} : r.kind = "raise",
         replies |-> replies, retweets |-> retweets, likes |-> likes, quotes |-> quotes]

None ==
    [kind |-> "none", content |-> <<>>, timestamp |-> "none",
     replies |-> NoResult, retweets |-> NoResult, likes |-> NoResult, quotes |-> NoResult]

\* SeleniumScraper._extract_tweet_data: a Tweet, or None
_extract_tweet_data(element) ==
    IF element.text.state # "found" THEN None
    ELSE LET content == clean_text(element.text.text)
             timestamp == TimestampOf(element.time)
             metrics == _extract_engagement_metrics(element)
         IN  IF content = <<>> THEN None
             ELSE IF timestamp = "raise" THEN None
             ELSE IF metrics.raised THEN None
             ELSE [kind |-> "tweet", content |-> strip(content), timestamp |-> timestamp,
                   replies |-> metrics.replies, retweets |-> metrics.retweets,
                   likes |-> metrics.likes, quotes |-> metrics.quotes]

\* _extract_tweet_data(arg, username) is evaluated
ExtractTweetData ==
    /\ pc = "extract_idle"
    /\ ret' = _extract_tweet_data(arg)
    /\ pc' = "extracted"
    /\ UNCHANGED <<scraper, rate_enabled, rate_delay, rate_sleeps, retry, arg>>

InitExtract ==
    /\ NoScraper /\ NoHelper
    /\ mode = "extract"
    /\ pc = "extract_idle"
    /\ arg \in PostElements
    /\ ret = None

NextExtract == ExtractTweetData

SpecExtract == InitExtract /\ [][NextExtract]_vars

(***************************************************************************)
(* models.user.User (user.py).  A dictionary given to User.from_dict is    *)
(* described by its username, its tweet_count and the form of its          *)
(* created_at value; a datetime is "naive" (no zone) or "aware".           *)
(***************************************************************************)
\* the created_at value of a dictionary: the key is absent, the value is
\* None, a string that fromisoformat rejects, an ISO string without zone,
\* with "Z" or with an offset, a datetime object, or a number
CreatedAtForms ==
    {"absent", "None", "text", "iso_naive", "iso_z", "iso_offset",
     "datetime_naive", "datetime_aware", "number"}

TweetCounts == {0, 5}

UserDicts ==
    [username : StringsUpTo(MaxNameLen), created_at : CreatedAtForms, tweet_count : TweetCounts]

\* lines 49-50: if self.username: self.username = self.username.lstrip("@").strip()
UserPostInit(name) ==
    IF name = <<>> THEN <<>> ELSE strip(lstrip(name, "@"))

\* lines 130-138: the created_at that from_dict passes to the constructor
ParsedCreatedAt(form) ==
    CASE form = "iso_naive" -> "naive"
      [] form \in {"iso_z", "iso_offset"} -> "aware"
      [] form = "datetime_naive" -> "naive"
      [] form = "datetime_aware" -> "aware"
      [] OTHER -> "None"

NoUserObject ==
    [kind |-> "none", username |-> <<>>, created_at |-> "None", tweet_count |-> 0,
     call |-> "none", outcome |-> "none"]

\* User(username): every other field keeps its default
User(name) ==
    [kind |-> "user", username |-> UserPostInit(name), created_at |-> "None",
     tweet_count |-> 0, call |-> "none", outcome |-> "none"]

\* User.from_dict(data)
User_from_dict(data) ==
    [kind |-> "user", username |-> UserPostInit(data.username),
     created_at |-> ParsedCreatedAt(data.created_at),
     tweet_count |-> data.tweet_count, call |-> "none", outcome |-> "none"]

\* datetime.now() - created_at: datetime.now() is naive, and subtracting an
\* aware datetime from a naive one raises TypeError
Subtract(created_at) == IF created_at = "aware" THEN "TypeError" ELSE "value"

\* lines 85-92
account_age_days(user) ==
    IF user.created_at = "None" THEN "value" ELSE Subtract(user.created_at)

\* lines 71-83
tweets_per_day(user) ==
    IF user.created_at = "None" \/ user.tweet_count = 0 THEN "value"
    ELSE Subtract(user.created_at)

\* lines 94-116: the dictionary is built key by key
User_to_dict(user) ==
    IF tweets_per_day(user) # "value" THEN tweets_per_day(user)
    ELSE account_age_days(user)

\* lines 118-123: json.dumps(self.to_dict(), default=str)
User_to_json(user) == User_to_dict(user)

UserCalls == {"account_age_days", "tweets_per_day", "to_dict", "to_json"}

CallUser(user, call) ==
    CASE call = "account_age_days" -> account_age_days(user)
      [] call = "tweets_per_day" -> tweets_per_day(user)
      [] call = "to_dict" -> User_to_dict(user)
      [] call = "to_json" -> User_to_json(user)

\* User(username = arg.username) is evaluated
UserInit ==
    /\ pc = "user_idle"
    /\ ret' = User(arg.username)
    /\ pc' = "user_made"
    /\ UNCHANGED <<scraper, rate_enabled, rate_delay, rate_sleeps, retry, arg>>

\* User.from_dict(arg) is evaluated
UserFromDict ==
    /\ pc = "user_idle"
    /\ ret' = User_from_dict(arg)
    /\ pc' = "user_made"
    /\ UNCHANGED <<scraper, rate_enabled, rate_delay, rate_sleeps, retry, arg>>

\* a derived property or a conversion of the User is evaluated
UserCall ==
    /\ pc = "user_made"
    /\ \E call \in UserCalls :
          ret' = [ret EXCEPT !.call = call, !.outcome = CallUser(ret, call)]
    /\ pc' = "user_called"
    /\ UNCHANGED <<scraper, rate_enabled, rate_delay, rate_sleeps, retry, arg>>

InitUser ==
    /\ NoScraper /\ NoHelper
    /\ mode = "user"
    /\ pc = "user_idle"
    /\ arg \in UserDicts
    /\ ret = NoUserObject

NextUser ==
    \/ UserInit
    \/ UserFromDict
    \/ UserCall

SpecUser == InitUser /\ [][NextUser]_vars

(***************************************************************************)
(* models.tweet.Tweet (tweet.py).  The list-valued fields of a Tweet hold  *)
(* references: heap[a] is the content of the list (or dict) object at      *)
(* address a, and a Tweet instance holds four addresses.  to_dict puts the *)
(* same references into the dictionary, and from_dict hands the values of  *)
(* the dictionary to the constructor.                                      *)
(***************************************************************************)
TweetContents == { <<" ", "x">>, <<"x", " ", "x">> }

LikeCounts == {0, 2}

ListFields == {"mentions", "hashtags", "media_urls", "metadata"}

\* the parameters of the dataclass constructor that the model keeps
TweetFields ==
    {"content", "timestamp", "likes", "retweets", "replies", "quotes"} \cup ListFields

\* len(content.split()): the number of runs of characters other than " "
RECURSIVE WordCount(_)
WordCount(s) ==
    IF s = <<>> THEN 0
    ELSE IF Head(s) # " " /\ (Len(s) = 1 \/ s[2] = " ")
    THEN 1 + WordCount(Tail(s))
    ELSE WordCount(Tail(s))

\* datetime.isoformat() and datetime.fromisoformat()
Isoformat(ts) == <<"iso", ts>>
Fromisoformat(s) == IF Len(s) = 2 /\ s[1] = "iso" THEN s[2] ELSE "now"

\* dict.get(key, default)
Get(data, key, default) == IF key \in DOMAIN data THEN data[key] ELSE default

\* the dataclass constructor and __post_init__ (lines 33-46): the list
\* arguments are kept as given, the content is stripped
Tweet(content, timestamp, counts, lists) ==
    [kind |-> "tweet",
     content |-> IF content # <<>> THEN strip(content) ELSE content,
     timestamp |-> timestamp,
     likes |-> counts[1], retweets |-> counts[2], replies |-> counts[3], quotes |-> counts[4],
     mentions |-> lists[1], hashtags |-> lists[2],
     media_urls |-> lists[3], metadata |-> lists[4]]

\* lines 68-92
Tweet_to_dict(t, objects) ==
    [content |-> t.content,
     timestamp |-> Isoformat(t.timestamp),
     likes |-> t.likes, retweets |-> t.retweets,
     replies |-> t.replies, quotes |-> t.quotes,
     mentions |-> t.mentions, hashtags |-> t.hashtags,
     media_urls |-> t.media_urls,
     engagement_total |-> t.likes + t.retweets + t.replies + t.quotes,
     has_media |-> Len(objects[t.media_urls]) > 0,
     word_count |-> WordCount(t.content),
     character_count |-> Len(t.content),
     metadata |-> t.metadata]

TypeError ==
    [kind |-> "TypeError", content |-> <<>>, timestamp |-> "none",
     likes |-> 0, retweets |-> 0, replies |-> 0, quotes |-> 0,
     mentions |-> 0, hashtags |-> 0, media_urls |-> 0, metadata |-> 0]

\* mutant of Tweet_from_dict: the dictionary is handed to the constructor as
\* keyword arguments, which rejects the keys that are not fields
Tweet_from_dict_kwargs(data, fresh) ==
    IF DOMAIN data \subseteq TweetFields
    THEN Tweet(Get(data, "content", <<>>), Fromisoformat(Get(data, "timestamp", <<>>)),
               <<Get(data, "likes", 0), Get(data, "retweets", 0),
                 Get(data, "replies", 0), Get(data, "quotes", 0)>>,
               <<Get(data, "mentions", fresh + 1), Get(data, "hashtags", fresh + 2),
                 Get(data, "media_urls", fresh + 3), Get(data, "metadata", fresh + 4)>>)
    ELSE TypeError

\* lines 98-130: each field is read with data.get; the defaults [] and {}
\* are new objects, at the addresses fresh + 1 .. fresh + 4
Tweet_from_dict(data, fresh) ==
    Tweet(Get(data, "content", <<>>), Fromisoformat(Get(data, "timestamp", <<>>)),
          <<Get(data, "likes", 0), Get(data, "retweets", 0),
            Get(data, "replies", 0), Get(data, "quotes", 0)>>,
          <<Get(data, "mentions", fresh + 1), Get(data, "hashtags", fresh + 2),
            Get(data, "media_urls", fresh + 3), Get(data, "metadata", fresh + 4)>>)

\* no Tweet exists; last describes the latest from_dict call: the instance
\* whose to_dict made the dictionary, the instance built, whether it raised
NoTweets ==
    [heap |-> <<>>, tweets |-> <<>>, dict_of |-> 0, appends |-> 0,
     last |-> [src |-> 0, dst |-> 0, raised |-> FALSE]]

\* the lists instance i of the state r shows, in the order of ListFields
Lists(r, i) ==
    <<r.heap[r.tweets[i].mentions], r.heap[r.tweets[i].hashtags],
      r.heap[r.tweets[i].media_urls], r.heap[r.tweets[i].metadata]>>

\* Tweet(content, username, timestamp, likes = n, mentions = [1, 2]): the
\* other list fields get the new objects of their default factories
TweetInit ==
    /\ pc = "tweet_idle"
    /\ Len(ret.tweets) < MaxTweetObjects
    /\ \E content \in TweetContents, n \in LikeCounts :
          LET fresh == Len(ret.heap)
          IN  ret' = [ret EXCEPT
                        !.heap = @ \o << <<1, 2>>, <<>>, <<>>, <<>> >>,
                        !.tweets = Append(@, Tweet(content, "clock", <<n, 0, 0, 0>>,
                                                   <<fresh + 1, fresh + 2, fresh + 3, fresh + 4>>)),
                        !.last = NoTweets.last]
    /\ UNCHANGED <<scraper, pc, rate_enabled, rate_delay, rate_sleeps, retry, arg>>

\* arg = t.to_dict() for an instance t
TweetToDict ==
    /\ pc = "tweet_idle"
    /\ \E i \in 1..Len(ret.tweets) :
          /\ arg' = Tweet_to_dict(ret.tweets[i], ret.heap)
          /\ ret' = [ret EXCEPT !.dict_of = i, !.last = NoTweets.last]
    /\ UNCHANGED <<scraper, pc, rate_enabled, rate_delay, rate_sleeps, retry>>

\* Tweet.from_dict(arg); arg is {} as long as no to_dict was called
TweetFromDict ==
    /\ pc = "tweet_idle"
    /\ Len(ret.tweets) < MaxTweetObjects
    /\ LET fresh == Len(ret.heap)
           made == Tweet_from_dict(arg, fresh)
       IN  IF made.kind = "tweet"
           THEN ret' = [ret EXCEPT
                          !.heap = @ \o << <<>>, <<>>, <<>>, <<>> >>,
                          !.tweets = Append(@, made),
                          !.last = [src |-> ret.dict_of, dst |-> Len(ret.tweets) + 1,
                                    raised |-> FALSE]]
           ELSE ret' = [ret EXCEPT
                          !.last = [src |-> ret.dict_of, dst |-> 0, raised |-> TRUE]]
    /\ UNCHANGED <<scraper, pc, rate_enabled, rate_delay, rate_sleeps, retry, arg>>

\* t.mentions.append(7), or the same on another list field of t
TweetAppend ==
    /\ pc = "tweet_idle"
    /\ ret.appends < MaxAppends
    /\ \E i \in 1..Len(ret.tweets), f \in ListFields :
          ret' = [ret EXCEPT
                    !.heap[ret.tweets[i][f]] = Append(@, 7),
                    !.appends = @ + 1,
                    !.last = NoTweets.last]
    /\ UNCHANGED <<scraper, pc, rate_enabled, rate_delay, rate_sleeps, retry, arg>>

InitTweet ==
    /\ NoScraper /\ NoHelper
    /\ mode = "tweet"
    /\ pc = "tweet_idle"
    /\ arg = <<>>
    /\ ret = NoTweets

NextTweet ==
    \/ TweetInit
    \/ TweetToDict
    \/ TweetFromDict
    \/ TweetAppend

SpecTweet == InitTweet /\ [][NextTweet]_vars

(***************************************************************************)
(* Properties.                                                             *)
(***************************************************************************)
\* an operation of the constructed object has ended
Ended(o) == pc = "idle" /\ op = o

NoDuplicates(s) == \A i, j \in 1..Len(s) : i # j => s[i] # s[j]

\* BaseScraper._retry_with_backoff(func, max_retries = 3)
max_retries == 3

\* C1: the list scrape_user_tweets returns is never longer than max_tweets,
\* and from the moment len(tweets) reaches max_tweets until the operation
\* ends there is no further find_elements, no further element extraction,
\* no scroll and no pause.
C1_CountLimit ==
    /\ [](Ended("tweets") /\ outcome = "ok" => Len(result) <= max_tweets)
    /\ [][ (op = "tweets" /\ pc # "idle" /\ Len(tweets) >= max_tweets)
             => /\ finds' = finds
                /\ extracts' = extracts
                /\ scrolls' = scrolls
                /\ pauses' = pauses ]_vars

\* the loop stopped at the requested count with rendered elements left
\* unscanned and scroll budget left
C1_Witness ==
    /\ Ended("tweets") /\ outcome = "ok"
    /\ max_tweets = 2 /\ Len(result) = 2
    /\ idx < Len(tweet_elements)
    /\ scroll_count < max_scrolls

\* C2: every operation ends; scrape_user_tweets issues at most max_scrolls
\* scrolls; when the budget is used up with fewer than max_tweets tweets the
\* accumulated tweets are returned as a normal result; and it ends with a
\* ScrapingError only when a driver call raised.
C2_Terminates ==
    /\ [](scrolls <= max_scrolls /\ scroll_count <= max_scrolls)
    /\ []( (Ended("tweets") /\ outcome # "ValueError" /\ cause = "none")
             => (outcome = "ok" /\ result = tweets) )
    /\ [](pc = "validate" => <>(pc = "idle"))

\* the scroll budget ran out with some, but fewer than max_tweets, tweets
C2_Witness ==
    /\ Ended("tweets") /\ outcome = "ok"
    /\ max_scrolls = 2 /\ scroll_count = max_scrolls /\ scrolls = 2
    /\ Len(result) >= 1 /\ Len(result) < max_tweets

\* C3: in the scenario the operation ends normally after exactly 2 scrolls
\* with exactly 6 tweets, wherever the malformed elements sit.
C3_ScenarioSixRecords ==
    (mode = "scenario" /\ Ended("tweets"))
        => (outcome = "ok" /\ scrolls = 2 /\ Len(result) = 6)

\* C4: on a page that keeps its element order and renders distinct
\* elements, the returned list holds at most one tweet per element.
C4_Deduplicates ==
    (Ended("tweets") /\ outcome = "ok" /\ stable) => NoDuplicates(result)

\* C5 as stated: a failing element lookup or scroll after at least one tweet
\* was accumulated gives the caller the accumulated tweets, not an error.
C5_PartialOnFailure ==
    (Ended("tweets") /\ cause \in {"find_elements", "execute_script"} /\ Len(tweets) >= 1)
        => (outcome = "ok" /\ result = tweets)

\* C5 as amended: a failing element lookup or scroll ends scrape_user_tweets
\* with a ScrapingError and no list, whatever was accumulated; the
\* accumulated tweets are returned exactly when no driver call raised.
C5_FailureDiscards ==
    /\ (Ended("tweets") /\ cause \in {"find_elements", "execute_script"})
          => (outcome = "ScrapingError" /\ result = <<>>)
    /\ (Ended("tweets") /\ outcome = "ok") => (cause = "none" /\ result = tweets)

\* a scroll raised after tweets had been accumulated
C5_Witness ==
    /\ Ended("tweets") /\ cause = "execute_script"
    /\ Len(tweets) >= 2
    /\ outcome = "ScrapingError"

\* C6: a ScrapingError caused by a failing navigation reaches the caller
\* only after the navigation was attempted max_retries times.
C6_NavigationRetried ==
    ( (Ended("tweets") \/ Ended("profile")) /\ outcome = "ScrapingError" /\ errCause = "get" )
        => navs >= max_retries

\* C7: once validate_username has returned, a failure of the navigation,
\* the wait, an element lookup or a scroll in scrape_user_tweets is handled
\* and reaches the caller as a ScrapingError naming the validated username
\* and the cause, and no list is returned.
C7_FailureWrapped ==
    /\ (op = "tweets" /\ cause # "none") => pc \in {"except", "idle"}
    /\ (Ended("tweets") /\ cause # "none")
          => /\ outcome = "ScrapingError"
             /\ errUser = lstrip(username, "@")
             /\ errCause = cause
             /\ result = <<>>

\* the wait raised for the username "@a"
C7_Witness ==
    /\ Ended("tweets") /\ cause = "wait"
    /\ username = <<"@", "a">> /\ errUser = <<"a">>
    /\ outcome = "ScrapingError"

\* C8: a username validate_username rejects ends either operation in the
\* very next step with the ValueError itself, before any navigation, wait,
\* lookup, scroll or pause, not handled by the except clause.
C8_ValidationFirst ==
    /\ []( ((Ended("tweets") \/ Ended("profile")) /\ ~validate_username(username).ok)
             => /\ outcome = "ValueError"
                /\ cause = "none" /\ errCause = "none"
                /\ navs = 0 /\ finds = 0 /\ extracts = 0 /\ scrolls = 0 /\ pauses = 0 )
    /\ [][ (pc = "validate" /\ ~validate_username(username).ok) => pc' = "idle" ]_vars
    /\ [](pc \in {"get", "wait"} => validate_username(username).ok)

\* scrape_user_profile("a 7") has failed
C8_Witness ==
    /\ Ended("profile") /\ username = <<"a", " ", "7">>
    /\ outcome = "ValueError" /\ navs = 0

\* C9: with the leading "@" stripped, a non-empty remainder is accepted
\* exactly when each of its characters is alphanumeric, "_" or "-", and the
\* accepted value is the remainder, without a leading "@".
C9_CharsetValidation ==
    LET rest == lstrip(username, "@")
    IN  (mode = "validate" /\ pc # "validate" /\ rest # <<>>)
            => /\ (pc = "get") <=> (\A i \in 1..Len(rest) : rest[i] \in AlnumChars \cup {"_", "-"})
               /\ pc = "get" => (uname = rest /\ Head(uname) # "@")

\* C10: when the constructor (with the browser process started) or a
\* scraping operation has ended by raising, driver.quit() has been called.
C10_ReleasedOnError ==
    ( pc \in {"idle", "dead"} /\ op \in {"init", "tweets", "profile"}
      /\ outcome \in {"ValueError", "ScrapingError"} /\ driver # "none" )
        => driver = "quit"

\* C11: _retry_with_backoff invokes the work at most max_retries times;
\* it ends either by returning the result of a successful invocation, which
\* is then the last one, or by raising the exception of the final
\* invocation, and with no other error.
C11_RetryContract ==
    /\ retry.invocations <= retry.max_retries
    /\ retry.ended # "none"
          => \/ retry.ended = "returned"
             \/ retry.ended = "raised" /\ retry.last_exception = retry.invocations

\* C12: every backoff sleep is followed by another invocation of the work
\* (none follows the final failure), and the sleep after the failure of
\* attempt k lasts between 2^k and 2^(k+1) seconds.
C12_SleepsBetweenAttempts ==
    /\ \A i \in 1..Len(retry.sleeps) :
          /\ retry.sleeps[i].delay >= 10 * Pow2(retry.sleeps[i].attempt)
          /\ retry.sleeps[i].delay <= 10 * Pow2(retry.sleeps[i].attempt + 1)
    /\ retry.ended # "none"
          => \A i \in 1..Len(retry.sleeps) : retry.sleeps[i].after < retry.invocations

\* C13: when rate_limiting.enabled is true, each driver.get of a scraping
\* operation is preceded by a rate-limit sleep of 0.5 to 1.5 times the
\* configured delay; when it is false there is no rate-limit sleep.
C13_RateLimited ==
    ( (Ended("tweets") \/ Ended("profile")) /\ navs > 0 )
        => IF rate_enabled
           THEN /\ Len(rate_sleeps) >= navs
                /\ \A i \in 1..Len(rate_sleeps) :
                      rate_sleeps[i] >= 5 * rate_delay /\ rate_sleeps[i] <= 15 * rate_delay
           ELSE rate_sleeps = <<>>

\* C14: a navigation timeout does not make scrape_user_tweets fail: neither
\* a page load that exceeds its timeout nor a page-ready signal that does
\* not appear in time sends the operation to its failure handler; after
\* either, the operation goes on to scan the elements present.
C14_TimeoutNonFatal ==
    (op = "tweets" /\ pc = "except")
        => cause \notin {"page_load_timeout", "wait_timeout"}

\* C15: a post element whose extraction fails is skipped: the for loop
\* keeps the records accepted so far, does not leave for the failure
\* handler, and goes on with the next element of the same pass.
C15_MalformedSkipped ==
    [][ (pc = "for" /\ idx <= Len(tweet_elements) /\ ~tweet_elements[idx].ok)
           => /\ tweets' = tweets
              /\ tweet_elements' = tweet_elements
              /\ idx' = idx + 1
              /\ pc' = "for" ]_vars

\* a pass in which a record was accepted, the next element was skipped and
\* a later element is about to be processed
C15_Witness ==
    /\ pc = "for"
    /\ idx > 2 /\ idx <= Len(tweet_elements)
    /\ ~tweet_elements[idx - 1].ok
    /\ tweet_elements[idx - 2].ok
    /\ Len(tweets) > 0 /\ tweets[Len(tweets)] = tweet_elements[idx - 2].id

\* C17: the count _extract_engagement_metrics stores for a metric is
\* parse_number_abbrev of the text its sub-element shows, and 0 when the
\* sub-element is missing.
C17_AbbrevParserUsed ==
    /\ pc = "metric_done" => ret = parse_number_abbrev(arg)
    /\ pc = "metric_missing" => ret = Returned(0, 0)

\* C18: parse_number_abbrev returns an integer for every text and never
\* raises; a text that is empty, or empty once separators and whitespace
\* are removed, gives 0.
C18_AbbrevTotal ==
    pc = "abbrev_done"
        => /\ ret.kind = "int"
           /\ strip(remove(arg, ",")) = <<>> => ret.n = 0

\* C20: clean_text applied to its own result gives that result again.
C20_CleanIdempotent ==
    (pc = "clean_idle" /\ ret.calls = 2) => ret.last = ret.first

C19_CountsNonNegative ==
    (pc = "extracted" /\ ret.kind = "tweet")
        => /\ ret.likes.n >= 0
           /\ ret.retweets.n >= 0
           /\ ret.replies.n >= 0
           /\ ret.quotes.n >= 0

\* C24: scrape_user_profile returns None when neither the display name nor
\* the bio could be read, and a User when at least one of them was read.
C24_AbsentWithoutFields ==
    (Ended("profile") /\ outcome = "ok")
        => ( profile = NoUser
               <=> (profile.display_name = "null" /\ profile.bio = "null") )

\* C25: on a page that keeps its element order, each pass of the for loop
\* starts at the number of elements that _extract_tweet_data has already
\* been given, so no element is given to it twice.
C25_PassStartsAtScanned ==
    (op = "tweets" /\ pc = "for" /\ stable) => idx = extracts + 1

\* C26: when scrape_user_tweets returns fewer than max_tweets tweets, every
\* rendering step, the page load and each scroll, was followed by a pause
\* (for a scroll) and by a pass over the rendered elements.
C26_RenderThenScan ==
    (Ended("tweets") /\ outcome = "ok" /\ Len(result) < max_tweets)
        => (finds = navs + scrolls /\ pauses = scrolls)

\* C28: driver.quit() is called at most once on one scraper object, and no
\* driver.get is issued once cleanup() has quit the browser.
C28_QuitOnceThenUnused ==
    /\ quits <= 1
    /\ ~(driver = "quit" /\ navs > 0 /\ pc \in {"wait", "except"})

\* C23: the username a User holds, whether built by the constructor or by
\* from_dict, has no whitespace at either end and does not begin with "@".
C23_UsernameNormalized ==
    (pc = "user_made" /\ ret.username # <<>>)
        => /\ Head(ret.username) \notin {"@", " "}
           /\ ret.username[Len(ret.username)] # " "

\* C27: account_age_days, tweets_per_day, to_dict and to_json of a User
\* made by from_dict return a value, whatever the form of created_at.
C27_DerivedNeverRaise ==
    pc = "user_called" => ret.outcome = "value"

\* C21: Tweet.from_dict(t.to_dict()) does not raise, and the Tweet it
\* builds has the content, the four counters and, in the same order, the
\* mentions, hashtags and media_urls of t.
C21_RoundTrip ==
    ret.last.src # 0
        => /\ ~ret.last.raised
           /\ ret.last.dst # 0
           /\ LET t == ret.tweets[ret.last.src]
                  u == ret.tweets[ret.last.dst]
              IN  /\ u.content = t.content
                  /\ <<u.likes, u.retweets, u.replies, u.quotes>>
                        = <<t.likes, t.retweets, t.replies, t.quotes>>
                  /\ ret.heap[u.mentions] = ret.heap[t.mentions]
                  /\ ret.heap[u.hashtags] = ret.heap[t.hashtags]
                  /\ ret.heap[u.media_urls] = ret.heap[t.media_urls]

\* a Tweet with likes, two mentions and an appended media URL has been
\* rebuilt from its dictionary
C21_Witness ==
    /\ mode = "tweet"
    /\ ret.last.src # 0 /\ ret.last.dst # 0
    /\ ret.tweets[ret.last.dst].likes = 2
    /\ ret.heap[ret.tweets[ret.last.dst].mentions] = <<1, 2>>
    /\ ret.heap[ret.tweets[ret.last.dst].media_urls] = <<7>>
    /\ arg.has_media /\ arg.engagement_total = 2 /\ arg.word_count = 2

\* C22: a step changes the list-valued fields of at most one Tweet
\* instance: appending to a list of one instance leaves the lists of every
\* other instance as they were.
C22_ListsNotShared ==
    [][ mode = "tweet"
          => \A i, j \in 1..Len(ret.tweets) :
                (i # j /\ Lists(ret, i)' # Lists(ret, i)) => Lists(ret, j)' = Lists(ret, j) ]_vars

====
